---- MODULE Spec2Model ----
(***************************************************************************)
(* Job-status reconciliation engine of llm-batch-api-benchmark:            *)
(* the canonical status model (data_models.py), the provider adapters      *)
(* (providers/*.py) and the reconciliation loops (providers/base.py).      *)
(*                                                                         *)
(* Time is counted in milliseconds.  Python None is NoneNum for optional   *)
(* numbers and timestamps and NoneStr for optional strings.  A member of   *)
(* the UserStatus enumeration is the string "UserStatus.<NAME>"; its       *)
(* .value, the token found in a JSON line, is "<NAME>".                    *)
(***************************************************************************)
EXTENDS Integers, Sequences, FiniteSets, TLC

VARIABLES
    provider,     \* the adapter in use (get_provider_name())
    now,          \* datetime.now(timezone.utc)
    pc,           \* position of the process: start / check_jobs_from_file / check_recent_jobs / idle / raised / classify
    state_file,   \* lines of the state file (parsed JSON objects)
    pos,          \* 1-based index of the next line / listed job of the running pass
    all_jobs,     \* result of _get_job_list of the running fresh scan
    output_file,  \* lines of the output file
    out_before,   \* the output file as the running pass found it
    written,      \* for each line the running pass wrote, the input position it came from
    calls,        \* provider calls issued by the running pass, in order
    exc,          \* exception that left the last pass (NoneStr when none)
    job,          \* snapshot handed to a single classification
    result,       \* what that classification returned
    term,         \* last UserStatus.is_terminal call: argument and return value
    artifact,     \* lines of the results artifact handed to a token count
    chain,        \* what the earlier passes of a chain of resume passes did
    f_out         \* the output file object of a pass: its path and its write buffer

vars == <<provider, now, pc, state_file, pos, all_jobs, output_file, out_before,
          written, calls, exc, job, result, term, artifact, chain, f_out>>

----------------------------------------------------------------------------
\* Bounds of the model

MaxLines == 2
MaxListing == 2

----------------------------------------------------------------------------
\* Python values

NoneNum == 0 - 1
NoneStr == "None"

\* no pass of a chain has run yet
NoChain == [passes |-> 0, terminal |-> {}, cancels |-> <<>>, lines |-> 0]

\* an output file of its own, written through
NoBuffer == [same_file |-> FALSE, buffer |-> <<>>]

Hour == 60 * 60 * 1000
Day == 24 * Hour

----------------------------------------------------------------------------
\* data_models.py: UserStatus

SUCCEEDED == "UserStatus.SUCCEEDED"
FAILED == "UserStatus.FAILED"
CANCELLED_TIMED_OUT == "UserStatus.CANCELLED_TIMED_OUT"
IN_PROGRESS == "UserStatus.IN_PROGRESS"
CANCELLED_ON_DEMAND == "UserStatus.CANCELLED_ON_DEMAND"
UNKNOWN == "UserStatus.UNKNOWN"

UserStatus ==
    {SUCCEEDED, FAILED, CANCELLED_TIMED_OUT, IN_PROGRESS, CANCELLED_ON_DEMAND, UNKNOWN}

\* member.value
UserStatusValue(m) ==
    CASE m = SUCCEEDED -> "SUCCEEDED"
      [] m = FAILED -> "FAILED"
      [] m = CANCELLED_TIMED_OUT -> "CANCELLED_TIMED_OUT"
      [] m = IN_PROGRESS -> "IN_PROGRESS"
      [] m = CANCELLED_ON_DEMAND -> "CANCELLED_ON_DEMAND"
      [] m = UNKNOWN -> "UNKNOWN"

is_terminal_without_failed(status) ==
    status \in {SUCCEEDED, CANCELLED_TIMED_OUT, CANCELLED_ON_DEMAND}

is_terminal_with_unknown(status) ==
    status \in {SUCCEEDED, FAILED, CANCELLED_TIMED_OUT, CANCELLED_ON_DEMAND, UNKNOWN}

is_terminal(status) ==
    status \in {SUCCEEDED, FAILED, CANCELLED_TIMED_OUT, CANCELLED_ON_DEMAND}

----------------------------------------------------------------------------
\* Provider status vocabularies

GoogleJobStatus ==
    {"JOB_STATE_PENDING", "JOB_STATE_RUNNING", "JOB_STATE_SUCCEEDED",
     "JOB_STATE_FAILED", "JOB_STATE_CANCELLED", "JOB_STATE_EXPIRED"}

OpenAIJobStatus ==
    {"validating", "in_progress", "finalizing", "completed", "failed",
     "cancelling", "cancelled", "expired"}

AnthropicJobStatus == {"in_progress", "ended"}

GoogleVertexAiJobStatus ==
    {"JOB_STATE_PENDING", "JOB_STATE_RUNNING", "JOB_STATE_SUCCEEDED",
     "JOB_STATE_FAILED", "JOB_STATE_CANCELLED", "JOB_STATE_EXPIRED",
     "JOB_STATE_UNSPECIFIED", "JOB_STATE_QUEUED", "JOB_STATE_CANCELLING",
     "JOB_STATE_PAUSED", "JOB_STATE_UPDATING", "JOB_STATE_PARTIALLY_SUCCEEDED"}

Providers == {"google", "openai", "anthropic", "google_vertex_ai"}

job_status_enum(p) ==
    CASE p = "google" -> GoogleJobStatus
      [] p = "openai" -> OpenAIJobStatus
      [] p = "anthropic" -> AnthropicJobStatus
      [] p = "google_vertex_ai" -> GoogleVertexAiJobStatus

\* data_models.ProviderJobStatus.<PROVIDER>: the known vocabulary read by
\* _validate_and_create_report.
ProviderJobStatus(p) == job_status_enum(p)

MODEL_NAME(p) ==
    CASE p = "google" -> "models/gemini-2.5-flash-lite"
      [] p = "openai" -> "gpt-4o-mini"
      [] p = "anthropic" -> "claude-3-haiku-20240307"
      [] p = "google_vertex_ai" -> "gemini-2.5-flash-lite"

----------------------------------------------------------------------------
\* Timeout and cancellation policy (providers/base.py)

should_skip_job(job_create_time, t) == job_create_time < t - 36 * Hour

should_cancel_for_timeout_window(job_create_time, t) ==
    job_create_time < t - Day /\ job_create_time > t - 26 * Hour

should_cancel_for_timeout_36h(job_create_time, t) == job_create_time < t - 36 * Hour

should_cancel_for_timeout_inclusive(job_create_time, t) == job_create_time <= t - Day

should_cancel_for_timeout(job_create_time, t) == job_create_time < t - Day

----------------------------------------------------------------------------
\* Provider job snapshots and JobReport (data_models.py)

\* ServiceReportedJobDetails(...)
ServiceReportedJobDetails(job_id, model, service_job_status, created_at, ended_at, total_requests, completed_requests, failed_requests) ==
    [job_id |-> job_id, model |-> model, service_job_status |-> service_job_status,
     created_at |-> created_at, ended_at |-> ended_at,
     total_requests |-> total_requests, completed_requests |-> completed_requests,
     failed_requests |-> failed_requests]

\* JobReport(...)
JobReport(p, job_id, user_assigned_status, latency_seconds, total_tokens, service_reported_details) ==
    [provider |-> p, job_id |-> job_id, user_assigned_status |-> user_assigned_status,
     latency_seconds |-> latency_seconds, total_tokens |-> total_tokens,
     service_reported_details |-> service_reported_details]

NoReport ==
    JobReport(NoneStr, NoneStr, NoneStr, NoneNum, NoneNum,
              ServiceReportedJobDetails(NoneStr, NoneStr, NoneStr, NoneNum, NoneNum,
                                        NoneNum, NoneNum, NoneNum))

Round0(ms) == 100 * ((ms + 500) \div 1000)

\* round(seconds, 2) of a duration given in milliseconds, in hundredths of a
\* second; the durations of the model are never an exact tie.
Round2(ms) == (ms + 5) \div 10

Decided_cancelling_timed_out(user_status, cancel) ==
    [raises |-> FALSE, exc |-> NoneStr, user_status |-> user_status,
     cancel |-> cancel \/ user_status = CANCELLED_TIMED_OUT]

\* What the status branch of _create_report_from_provider_job decides: the
\* status, whether cancel_job is invoked, or the exception it raises.
Decided(user_status, cancel) ==
    [raises |-> FALSE, exc |-> NoneStr, user_status |-> user_status, cancel |-> cancel]

Raises(e) ==
    [raises |-> TRUE, exc |-> e, user_status |-> NoneStr, cancel |-> FALSE]

----------------------------------------------------------------------------
\* providers/google.py

GoogleProvider_latency_any_status(j) ==
    IF j.ended_at # NoneNum THEN Round2(j.ended_at - j.created_at) ELSE NoneNum

GoogleProvider_latency(j) ==
    IF j.status = "JOB_STATE_SUCCEEDED" /\ j.ended_at # NoneNum
    THEN Round2(j.ended_at - j.created_at) ELSE NoneNum

GoogleProvider_details(j) ==
    ServiceReportedJobDetails(j.id, j.model, j.status, j.created_at, j.ended_at,
                              NoneNum, NoneNum, NoneNum)

GoogleProvider_status_without_cancel(j, t) ==
    IF j.status = "JOB_STATE_SUCCEEDED" THEN Decided(SUCCEEDED, FALSE)
    ELSE IF j.status = "JOB_STATE_CANCELLED" THEN
        IF j.ended_at # NoneNum /\ (j.ended_at - j.created_at) > Day
        THEN Decided(CANCELLED_TIMED_OUT, FALSE)
        ELSE Decided(CANCELLED_ON_DEMAND, FALSE)
    ELSE IF j.status = "JOB_STATE_FAILED" THEN Decided(FAILED, FALSE)
    ELSE IF j.status = "JOB_STATE_EXPIRED" THEN Decided(CANCELLED_TIMED_OUT, FALSE)
    ELSE IF j.status \in {"JOB_STATE_PENDING", "JOB_STATE_RUNNING"} THEN
        IF should_cancel_for_timeout(j.created_at, t)
        THEN Decided(CANCELLED_TIMED_OUT, FALSE)
        ELSE Decided(IN_PROGRESS, FALSE)
    ELSE Raises("ValueError")

GoogleProvider_status(j, t) ==
    IF j.status = "JOB_STATE_SUCCEEDED" THEN Decided(SUCCEEDED, FALSE)
    ELSE IF j.status = "JOB_STATE_CANCELLED" THEN
        IF j.ended_at # NoneNum /\ (j.ended_at - j.created_at) > Day
        THEN Decided(CANCELLED_TIMED_OUT, FALSE)
        ELSE Decided(CANCELLED_ON_DEMAND, FALSE)
    ELSE IF j.status = "JOB_STATE_FAILED" THEN Decided(FAILED, FALSE)
    ELSE IF j.status = "JOB_STATE_EXPIRED" THEN Decided(CANCELLED_TIMED_OUT, FALSE)
    ELSE IF j.status \in {"JOB_STATE_PENDING", "JOB_STATE_RUNNING"} THEN
        IF should_cancel_for_timeout(j.created_at, t)
        THEN Decided(CANCELLED_TIMED_OUT, TRUE)
        ELSE Decided(IN_PROGRESS, FALSE)
    ELSE Raises("ValueError")

----------------------------------------------------------------------------
\* providers/openai.py

OpenAIProvider_latency(j) ==
    IF j.status = "completed" /\ j.ended_at # NoneNum
    THEN Round2(j.ended_at - j.created_at) ELSE NoneNum

OpenAIProvider_details(j) ==
    ServiceReportedJobDetails(j.id, j.model, j.status, j.created_at, j.ended_at,
                              j.total, j.succeeded, j.errored)

OpenAIProvider_status(j, t) ==
    IF j.status = "completed" THEN Decided(SUCCEEDED, FALSE)
    ELSE IF j.status = "cancelled" THEN
        IF j.ended_at # NoneNum /\ (j.ended_at - j.created_at) > Day
        THEN Decided(CANCELLED_TIMED_OUT, FALSE)
        ELSE Decided(CANCELLED_ON_DEMAND, FALSE)
    ELSE IF j.status = "failed" THEN Decided(FAILED, FALSE)
    ELSE IF j.status = "expired" THEN Decided(CANCELLED_TIMED_OUT, FALSE)
    ELSE IF j.status \in {"validating", "in_progress", "finalizing", "cancelling"} THEN
        IF should_cancel_for_timeout(j.created_at, t)
        THEN Decided(CANCELLED_TIMED_OUT, TRUE)
        ELSE Decided(IN_PROGRESS, FALSE)
    ELSE Raises("ValueError")

----------------------------------------------------------------------------
\* providers/anthropic.py

AnthropicProvider_total_requests(j) == j.succeeded + j.errored + j.expired + j.canceled

AnthropicProvider_latency(j) ==
    IF /\ j.status = "ended"
       /\ j.succeeded = AnthropicProvider_total_requests(j)
       /\ j.ended_at # NoneNum
    THEN Round2(j.ended_at - j.created_at) ELSE NoneNum

AnthropicProvider_details(j) ==
    ServiceReportedJobDetails(j.id, MODEL_NAME("anthropic"), j.status, j.created_at,
                              j.ended_at, AnthropicProvider_total_requests(j),
                              j.succeeded, j.errored)

handle_ended_job_canceled_first(j) ==
    IF j.canceled > 0 THEN Decided(CANCELLED_ON_DEMAND, FALSE)
    ELSE IF j.errored > 0 THEN Decided(FAILED, FALSE)
    ELSE IF j.expired > 0 THEN Decided(CANCELLED_TIMED_OUT, FALSE)
    ELSE IF j.succeeded = AnthropicProvider_total_requests(j) THEN Decided(SUCCEEDED, FALSE)
    ELSE Raises("ValueError")

handle_ended_job_expired_on_demand(j) ==
    IF j.errored > 0 THEN Decided(FAILED, FALSE)
    ELSE IF j.canceled > 0 \/ j.expired > 0 THEN Decided(CANCELLED_ON_DEMAND, FALSE)
    ELSE IF j.succeeded = AnthropicProvider_total_requests(j) THEN Decided(SUCCEEDED, FALSE)
    ELSE Raises("ValueError")

handle_ended_job(j) ==
    IF j.errored > 0 THEN Decided(FAILED, FALSE)
    ELSE IF j.canceled > 0 THEN Decided(CANCELLED_ON_DEMAND, FALSE)
    ELSE IF j.expired > 0 THEN Decided(CANCELLED_TIMED_OUT, FALSE)
    ELSE IF j.succeeded = AnthropicProvider_total_requests(j) THEN Decided(SUCCEEDED, FALSE)
    ELSE Raises("ValueError")

handle_in_progress_job(j, t) ==
    IF should_cancel_for_timeout(j.created_at, t)
    THEN Decided(CANCELLED_TIMED_OUT, TRUE)
    ELSE Decided(IN_PROGRESS, FALSE)

AnthropicProvider_status(j, t) ==
    IF j.status = "ended" THEN handle_ended_job(j)
    ELSE IF j.status = "in_progress" THEN handle_in_progress_job(j, t)
    ELSE Raises("ValueError")

----------------------------------------------------------------------------
\* providers/google_vertex_ai.py

GoogleVertexAiProvider_latency(j) ==
    IF j.status = "JOB_STATE_SUCCEEDED" /\ j.ended_at # NoneNum
    THEN Round2(j.ended_at - j.created_at) ELSE NoneNum

GoogleVertexAiProvider_details(j) ==
    ServiceReportedJobDetails(j.id, j.model, j.status, j.created_at, j.ended_at,
                              NoneNum, NoneNum, NoneNum)

GoogleVertexAiProvider_status(j, t) ==
    IF j.status = "JOB_STATE_SUCCEEDED" THEN Decided(SUCCEEDED, FALSE)
    ELSE IF j.status = "JOB_STATE_CANCELLED" THEN
        IF j.ended_at # NoneNum /\ (j.ended_at - j.created_at) > Day
        THEN Decided(CANCELLED_TIMED_OUT, FALSE)
        ELSE Decided(CANCELLED_ON_DEMAND, FALSE)
    ELSE IF j.status \in {"JOB_STATE_FAILED", "JOB_STATE_PARTIALLY_SUCCEEDED"}
        THEN Decided(FAILED, FALSE)
    ELSE IF j.status = "JOB_STATE_EXPIRED" THEN Decided(CANCELLED_TIMED_OUT, FALSE)
    ELSE IF j.status = "JOB_STATE_CANCELLING" THEN
        IF should_cancel_for_timeout(j.created_at, t)
        THEN Decided(CANCELLED_TIMED_OUT, FALSE)
        ELSE Decided(CANCELLED_ON_DEMAND, FALSE)
    ELSE IF j.status \in {"JOB_STATE_PENDING", "JOB_STATE_RUNNING", "JOB_STATE_UNSPECIFIED",
                          "JOB_STATE_QUEUED", "JOB_STATE_PAUSED", "JOB_STATE_UPDATING"} THEN
        IF should_cancel_for_timeout(j.created_at, t)
        THEN Decided(CANCELLED_TIMED_OUT, TRUE)
        ELSE Decided(IN_PROGRESS, FALSE)
    ELSE Raises("ValueError")

----------------------------------------------------------------------------
\* Token accounting (_calculate_total_tokens)

\* One line of a results artifact, by what json.loads and the key tests make
\* of it: "usage" (an object with a usage record), "no_usage" (an object
\* without one), "malformed" (no JSON: json.JSONDecodeError), "empty", or
\* "not_object" (JSON that is no container, such as null or 5: the key test
\* 'response' in result raises TypeError).
ResultLine(kind, tokens, output_tokens) ==
    [kind |-> kind, tokens |-> tokens, output_tokens |-> output_tokens]

\* the usage value one line adds to total_tokens
line_usage(p, line) ==
    IF line.kind # "usage" THEN 0
    ELSE IF p = "anthropic" THEN line.tokens + line.output_tokens
    ELSE line.tokens

\* the line raises an exception other than json.JSONDecodeError, which the
\* handler of the line does not catch
line_raises(line) == line.kind = "not_object"

content_raises(content) == \E k \in 1..Len(content) : line_raises(content[k])

RECURSIVE sum_usage(_, _)
sum_usage(p, content) ==
    IF content = <<>> THEN 0
    ELSE line_usage(p, Head(content)) + sum_usage(p, Tail(content))

has_results_artifact_any_reference(p, j) ==
    CASE p = "google" -> j.status = "JOB_STATE_SUCCEEDED"
      [] p = "openai" -> j.status = "completed"
      [] p = "anthropic" -> j.status = "ended"
      [] p = "google_vertex_ai" -> j.status = "JOB_STATE_SUCCEEDED"

\* the success state and the artifact reference that _calculate_total_tokens asks for
has_results_artifact(p, j) ==
    CASE p = "google" -> j.status = "JOB_STATE_SUCCEEDED" /\ j.results
      [] p = "openai" -> j.status = "completed" /\ j.results
      [] p = "anthropic" -> j.status = "ended" /\ j.results
      [] p = "google_vertex_ai" -> j.status = "JOB_STATE_SUCCEEDED" /\ j.results

calculate_total_tokens_zero_on_failure(p, j, download) ==
    IF ~has_results_artifact(p, j) THEN [tokens |-> 0, downloads |-> 0]
    ELSE IF p = "google_vertex_ai" /\ ~download.found THEN [tokens |-> 0, downloads |-> 0]
    ELSE IF download.raises \/ content_raises(download.content)
         THEN [tokens |-> 0, downloads |-> 1]
    ELSE [tokens |-> sum_usage(p, download.content), downloads |-> 1]

\* _calculate_total_tokens(job): the token count (NoneNum for None) and the
\* number of download calls made.  download is what the collaborator does
\* when asked: it raises, finds no predictions file (Vertex AI), or returns
\* the lines of the artifact.
calculate_total_tokens(p, j, download) ==
    IF ~has_results_artifact(p, j) THEN [tokens |-> NoneNum, downloads |-> 0]
    ELSE IF p = "google_vertex_ai" /\ ~download.found THEN [tokens |-> NoneNum, downloads |-> 0]
    ELSE IF download.raises \/ content_raises(download.content)
         THEN [tokens |-> NoneNum, downloads |-> 1]
    ELSE [tokens |-> sum_usage(p, download.content), downloads |-> 1]

----------------------------------------------------------------------------
\* Classification (_create_report_from_provider_job, _validate_and_create_report)

\* What a call returns: a report, or an exception; with the cancel_job calls
\* it issued, the download calls it made and the clock it read.
Returned(report, cancel_calls, downloads, t) ==
    [outcome |-> "return", exc |-> NoneStr, report |-> report,
     cancel_calls |-> cancel_calls, downloads |-> downloads, at |-> t]

Raised(e, cancel_calls, t) ==
    [outcome |-> "raise", exc |-> e, report |-> NoReport,
     cancel_calls |-> cancel_calls, downloads |-> 0, at |-> t]

provider_status(p, j, t) ==
    CASE p = "google" -> GoogleProvider_status(j, t)
      [] p = "openai" -> OpenAIProvider_status(j, t)
      [] p = "anthropic" -> AnthropicProvider_status(j, t)
      [] p = "google_vertex_ai" -> GoogleVertexAiProvider_status(j, t)

provider_latency(p, j) ==
    CASE p = "google" -> GoogleProvider_latency(j)
      [] p = "openai" -> OpenAIProvider_latency(j)
      [] p = "anthropic" -> AnthropicProvider_latency(j)
      [] p = "google_vertex_ai" -> GoogleVertexAiProvider_latency(j)

provider_details(p, j) ==
    CASE p = "google" -> GoogleProvider_details(j)
      [] p = "openai" -> OpenAIProvider_details(j)
      [] p = "anthropic" -> AnthropicProvider_details(j)
      [] p = "google_vertex_ai" -> GoogleVertexAiProvider_details(j)

\* _create_report_from_provider_job(job) at clock t; cancel_ok tells whether
\* cancel_job returns (TRUE) or raises when it is called.
create_report_from_provider_job(p, j, t, cancel_ok, download) ==
    LET d == provider_status(p, j, t) IN
    IF d.raises THEN Raised(d.exc, <<>>, t)
    ELSE IF d.cancel /\ ~cancel_ok THEN Raised("APIError", <<j.id>>, t)
    ELSE LET tk == IF d.user_status = SUCCEEDED
                   THEN calculate_total_tokens(p, j, download)
                   ELSE [tokens |-> NoneNum, downloads |-> 0]
         IN Returned(JobReport(p, j.id, d.user_status, provider_latency(p, j),
                               tk.tokens, provider_details(p, j)),
                     IF d.cancel THEN <<j.id>> ELSE <<>>, tk.downloads, t)

validate_and_create_report_unchecked(p, j, t, cancel_ok, download) ==
    LET r == create_report_from_provider_job(p, j, t, cancel_ok, download) IN
    IF r.outcome = "raise" /\ r.exc = "ValueError"
    THEN Returned(JobReport(p, j.id, UNKNOWN, NoneNum, NoneNum, provider_details(p, j)),
                  <<>>, 0, t)
    ELSE r

validate_and_create_report(p, j, t, cancel_ok, download) ==
    IF j.status \notin ProviderJobStatus(p) THEN Raised("ValueError", <<>>, t)
    ELSE create_report_from_provider_job(p, j, t, cancel_ok, download)

----------------------------------------------------------------------------
\* Serialization (JobReport.to_json / JobReport.from_json)

JsonNull == "null"
Missing == "<missing>"

to_json_without_serializer(report) ==
    [report EXCEPT !.job_id = IF @ = NoneStr THEN JsonNull ELSE @]

\* json.dumps(asdict(self), default=default_serializer): the enum member
\* becomes its value, None becomes null.
to_json(report) ==
    [report EXCEPT !.user_assigned_status =
        IF @ \in UserStatus THEN UserStatusValue(@)
        ELSE IF @ = NoneStr THEN JsonNull ELSE @,
                   !.job_id = IF @ = NoneStr THEN JsonNull ELSE @]

\* UserStatus(value)
IsUserStatusValue(v) == \E m \in UserStatus : UserStatusValue(m) = v

UserStatusOf(v) == CHOOSE m \in UserStatus : UserStatusValue(m) = v

\* a falsy JSON value: absent key, null or the empty string
Falsy(v) == v \in {Missing, JsonNull, NoneStr, ""}

\* JobReport.from_json(line): the report, or the exception raised
from_json(line) ==
    LET v == line.user_assigned_status IN
    IF ~Falsy(v) /\ ~IsUserStatusValue(v)
    THEN [raises |-> TRUE, exc |-> "ValueError", report |-> NoReport]
    ELSE IF v = Missing \/ line.job_id = Missing
    THEN [raises |-> TRUE, exc |-> "TypeError", report |-> NoReport]
    ELSE [raises |-> FALSE, exc |-> NoneStr,
          report |-> [line EXCEPT !.user_assigned_status =
                          IF Falsy(v) THEN (IF v = JsonNull THEN NoneStr ELSE v)
                          ELSE UserStatusOf(v),
                                  !.job_id = IF @ = JsonNull THEN NoneStr ELSE @]]

----------------------------------------------------------------------------
\* Inputs of the model

Clock0 == 100 * Hour

\* ages and run times of the snapshots, around the 24 h threshold
Ages == {Hour, Day, Day + 1, 25 * Hour}
Durations == {123450, Day, Day + 1, 25 * Hour}

RequestCounts(p, status) ==
    IF p = "anthropic"
    THEN [succeeded : 0..1, errored : 0..1, expired : 0..1, canceled : 0..1]
    ELSE IF p = "openai"
    THEN {[succeeded |-> 1, errored |-> 0, expired |-> 0, canceled |-> 0]}
    ELSE {[succeeded |-> 0, errored |-> 0, expired |-> 0, canceled |-> 0]}

Job(p, id, status, created_at, ended_at, c, results) ==
    [id |-> id, model |-> MODEL_NAME(p), status |-> status,
     created_at |-> created_at, ended_at |-> ended_at,
     succeeded |-> c.succeeded, errored |-> c.errored, expired |-> c.expired,
     canceled |-> c.canceled, total |-> c.succeeded + c.errored,
     results |-> results]

NoJob ==
    [id |-> NoneStr, model |-> NoneStr, status |-> NoneStr, created_at |-> NoneNum,
     ended_at |-> NoneNum, succeeded |-> 0, errored |-> 0, expired |-> 0,
     canceled |-> 0, total |-> 0, results |-> FALSE]

\* the snapshots provider p can return at clock t for a job named id
EndTimes(created_at, a) ==
    {NoneNum} \cup {created_at + d : d \in {x \in Durations : x <= a}}

Snapshots(p, id, t) ==
    UNION { UNION { { Job(p, id, st, t - a, e, c, r) :
                        e \in EndTimes(t - a, a), c \in RequestCounts(p, st), r \in BOOLEAN }
                    : a \in Ages }
            : st \in job_status_enum(p) \cup {"UNKNOWN_STATE"} }

\* what the results download does when asked
Downloads ==
    { [raises |-> TRUE, found |-> TRUE, content |-> <<>>],
      [raises |-> FALSE, found |-> FALSE, content |-> <<>>],
      [raises |-> FALSE, found |-> TRUE,
       content |-> <<ResultLine("usage", 10, 5), ResultLine("malformed", 0, 0),
                     ResultLine("usage", 20, 7)>>] }

\* during a pass: the download raises, or returns the artifact
LoopDownloads == {d \in Downloads : d.found}

NoResult ==
    [outcome |-> "none", exc |-> NoneStr, report |-> NoReport,
     cancel_calls |-> <<>>, downloads |-> 0, at |-> NoneNum]

NoTerm == [called |-> FALSE, arg |-> NoneStr, ret |-> FALSE]

----------------------------------------------------------------------------
\* Classification of one snapshot: the body of check_recent_jobs for one
\* listed job (validate and classify; write the line when a report returns).

MaxTicks == 2

ClassifyInit ==
    /\ provider \in Providers
    /\ now = Clock0
    /\ pc = "classify"
    /\ job \in Snapshots(provider, "job-1", Clock0)
    /\ result = NoResult
    /\ term = NoTerm
    /\ state_file = <<>>
    /\ pos = 0
    /\ all_jobs = <<>>
    /\ output_file = <<>>
    /\ out_before = <<>>
    /\ written = <<>>
    /\ calls = <<>>
    /\ exc = NoneStr
    /\ artifact = <<>>
    /\ chain = NoChain
    /\ f_out = NoBuffer

ValidateAndCreateReport ==
    /\ pc = "classify"
    /\ result.at # now
    /\ \E cancel_ok \in BOOLEAN, download \in Downloads :
          LET r == validate_and_create_report(provider, job, now, cancel_ok, download) IN
          /\ result' = r
          /\ output_file' = IF r.outcome = "return"
                            THEN Append(output_file, to_json(r.report))
                            ELSE output_file
    /\ UNCHANGED <<provider, now, pc, state_file, pos, all_jobs, out_before, written,
                   calls, exc, job, term>>
    /\ UNCHANGED artifact
    /\ UNCHANGED <<chain, f_out>>

\* the clock advances between two classifications of the same snapshot
Tick ==
    /\ pc = "classify"
    /\ now < Clock0 + MaxTicks * Hour
    /\ now' = now + Hour
    /\ UNCHANGED <<provider, pc, state_file, pos, all_jobs, output_file, out_before,
                   written, calls, exc, job, result, term, artifact>>
    /\ UNCHANGED <<chain, f_out>>

ClassifyNext == ValidateAndCreateReport \/ Tick

ClassifySpec == ClassifyInit /\ [][ClassifyNext]_vars

----------------------------------------------------------------------------------------------------------------------------------------
\* The reconciliation loops (BatchProvider.check_jobs_from_file,
\* BatchProvider.check_recent_jobs)

JobIds == {"job-1", "job-2"}

\* status tokens found in the lines of a state file
FileStatuses == {UserStatusValue(m) : m \in UserStatus} \cup {JsonNull}

\* a line of the state file, as an earlier run wrote it
StateLine(p, id, token) ==
    JobReport(p, id, token, NoneNum, NoneNum,
              ServiceReportedJobDetails(id, MODEL_NAME(p), NoneStr, NoneNum, NoneNum,
                                        NoneNum, NoneNum, NoneNum))

StateLines(p) ==
    {StateLine(p, id, tk) : id \in JobIds, tk \in {"IN_PROGRESS", "UNKNOWN", JsonNull}}
        \cup {StateLine(p, "job-1", tk) : tk \in FileStatuses}
        \cup {StateLine(p, "", "IN_PROGRESS")}

SeqsUpTo(S, n) == UNION {[1..k -> S] : k \in 0..n}

\* provider statuses of the snapshots returned during a pass: the success
\* literal, a status still running, and one outside the vocabulary
success_literal(p) ==
    CASE p = "google" -> "JOB_STATE_SUCCEEDED"
      [] p = "openai" -> "completed"
      [] p = "anthropic" -> "ended"
      [] p = "google_vertex_ai" -> "JOB_STATE_SUCCEEDED"

running_literal(p) ==
    CASE p = "google" -> "JOB_STATE_RUNNING"
      [] p = "openai" -> "in_progress"
      [] p = "anthropic" -> "in_progress"
      [] p = "google_vertex_ai" -> "JOB_STATE_RUNNING"

OneSucceeded == [succeeded |-> 1, errored |-> 0, expired |-> 0, canceled |-> 0]

\* snapshots the provider returns during a pass: succeeded after 123.45 s,
\* running for one hour, running for 25 hours, in an unknown state
LoopSnapshots(p, id, t) ==
    { Job(p, id, success_literal(p), t - Hour, t - Hour + 123450, OneSucceeded, TRUE),
      Job(p, id, running_literal(p), t - Hour, NoneNum, OneSucceeded, FALSE),
      Job(p, id, running_literal(p), t - 25 * Hour, NoneNum, OneSucceeded, FALSE),
      Job(p, id, "UNKNOWN_STATE", t - Hour, NoneNum, OneSucceeded, FALSE) }

\* what get_job_details_from_provider does: it returns a snapshot, fails in
\* transport, or finds that the job no longer exists
GetOutcomes(p, id, t) ==
    {[raises |-> TRUE, exc |-> e, job |-> NoJob] : e \in {"APIConnectionError", "NotFoundError"}}
        \cup {[raises |-> FALSE, exc |-> NoneStr, job |-> j] : j \in LoopSnapshots(p, id, t)}

generate_job_report_for_user_swallowing(p, g, t, cancel_ok, download) ==
    IF g.raises
    THEN Returned(JobReport(p, NoneStr, UNKNOWN, NoneNum, NoneNum, provider_details(p, g.job)),
                  <<>>, 0, t)
    ELSE validate_and_create_report(p, g.job, t, cancel_ok, download)

\* generate_job_report_for_user(job_id), g being what the retrieval did
generate_job_report_for_user(p, g, t, cancel_ok, download) ==
    IF g.raises THEN Raised(g.exc, <<>>, t)
    ELSE validate_and_create_report(p, g.job, t, cancel_ok, download)

Call(op, id, outcome, ln) ==
    [op |-> op, job_id |-> id, outcome |-> outcome, line |-> ln]

\* the cancel_job and download calls a classification issued
ClassificationCalls(id, r, download, ln) ==
    (IF r.cancel_calls # <<>>
     THEN <<Call("cancel", id, IF r.outcome = "raise" THEN r.exc ELSE "ok", ln)>>
     ELSE <<>>)
    \o (IF r.downloads > 0
        THEN <<Call("download", id, IF download.raises THEN "error" ELSE "ok", ln)>>
        ELSE <<>>)

\* a line some earlier run left in the output file
EarlierLine(p) == StateLine(p, "job-0", "FAILED")

Init ==
    /\ provider \in Providers
    /\ now = Clock0
    /\ pc = "start"
    /\ state_file \in SeqsUpTo(StateLines(provider), MaxLines)
    /\ pos = 0
    /\ all_jobs = <<>>
    /\ output_file = <<>>
    /\ out_before = <<>>
    /\ written = <<>>
    /\ calls = <<>>
    /\ exc = NoneStr
    /\ job = NoJob
    /\ result = NoResult
    /\ term = NoTerm
    /\ artifact = <<>>
    /\ chain = NoChain
    /\ f_out = NoBuffer

\* A run starts: with open(state_file, "r") as f_in, open(output_file, "a")
\* as f_out.  The state file is the one read before or the output file of
\* the run before (resume); the output file, opened for appending, holds a
\* line of an earlier run.
BeginCheckJobsFromFile ==
    /\ pc \in {"start", "idle", "raised"}
    /\ pc' = "check_jobs_from_file"
    /\ pos' = 1
    /\ exc' = NoneStr
    /\ calls' = <<>>
    /\ written' = <<>>
    /\ all_jobs' = <<>>
    /\ term' = NoTerm
    /\ \E resume \in BOOLEAN : state_file' = IF resume THEN output_file ELSE state_file
    /\ output_file' = <<EarlierLine(provider)>>
    /\ out_before' = <<EarlierLine(provider)>>
    /\ UNCHANGED <<provider, now, job, result>>
    /\ UNCHANGED artifact
    /\ UNCHANGED <<chain, f_out>>

\* the exception leaves the loop and the with block; the lines written so far stay
RaiseFromPass(e) ==
    /\ pc' = "raised"
    /\ exc' = e
    /\ UNCHANGED <<pos, output_file, written>>

\* f_out.write(report.to_json() + "\n")
WriteReport(report) ==
    /\ output_file' = Append(output_file, to_json(report))
    /\ written' = Append(written, pos)
    /\ pos' = pos + 1
    /\ UNCHANGED <<pc, exc>>

\* one iteration of "for line in f_in"
FromFileLine ==
    /\ pc = "check_jobs_from_file"
    /\ pos <= Len(state_file)
    /\ LET jr == from_json(state_file[pos]) IN
       IF jr.raises
       THEN /\ RaiseFromPass(jr.exc)
            /\ UNCHANGED <<calls, term>>
       ELSE LET st == jr.report.user_assigned_status
                id == jr.report.job_id
            IN /\ term' = [called |-> TRUE, arg |-> st, ret |-> is_terminal(st)]
               /\ IF is_terminal(st) \/ id \in {"", NoneStr}
                  THEN /\ pos' = pos + 1
                       /\ UNCHANGED <<pc, exc, output_file, written, calls>>
                  ELSE \E g \in GetOutcomes(provider, id, now),
                          cancel_ok \in BOOLEAN, download \in LoopDownloads :
                         LET r == generate_job_report_for_user(provider, g, now,
                                                               cancel_ok, download)
                         IN /\ calls' = calls
                                  \o <<Call("get", id, IF g.raises THEN g.exc ELSE "ok", pos)>>
                                  \o ClassificationCalls(id, r, download, pos)
                            /\ IF r.outcome = "raise"
                               THEN RaiseFromPass(r.exc)
                               ELSE WriteReport(r.report)
    /\ UNCHANGED <<provider, now, state_file, all_jobs, out_before, job, result>>
    /\ UNCHANGED artifact
    /\ UNCHANGED <<chain, f_out>>

\* the file is exhausted: both files are closed
EndCheckJobsFromFile ==
    /\ pc = "check_jobs_from_file"
    /\ pos > Len(state_file)
    /\ pc' = "idle"
    /\ UNCHANGED <<provider, now, state_file, pos, all_jobs, output_file, out_before,
                   written, calls, exc, job, result, term, artifact>>
    /\ UNCHANGED <<chain, f_out>>

\* the jobs the provider lists: those of a pass, a second running job, and
\* one created 37 hours ago
ListedSnapshots(p, t) ==
    LoopSnapshots(p, "job-1", t)
        \cup {Job(p, "job-2", running_literal(p), t - Hour, NoneNum, OneSucceeded, FALSE),
              Job(p, "job-2", running_literal(p), t - 37 * Hour, NoneNum, OneSucceeded, FALSE)}

\* _get_job_list(hours_ago): the listed jobs before the first one created
\* earlier than hours_ago hours ago
RECURSIVE get_job_list(_, _, _)
get_job_list(listing, hours_ago, t) ==
    IF listing = <<>> THEN <<>>
    ELSE IF Head(listing).created_at < t - hours_ago * Hour THEN <<>>
    ELSE <<Head(listing)>> \o get_job_list(Tail(listing), hours_ago, t)

\* FLAGS.hours_ago (default)
hours_ago == 36

\* check_recent_jobs: open(output_file, "a"), then _get_job_list(hours_ago).
\* main.py runs it before check_jobs_from_file; no state file is read.
BeginCheckRecentJobs ==
    /\ pc = "start"
    /\ state_file' = <<>>
    /\ pos' = 1
    /\ written' = <<>>
    /\ term' = NoTerm
    /\ output_file' = <<EarlierLine(provider)>>
    /\ out_before' = <<EarlierLine(provider)>>
    /\ \E listing \in SeqsUpTo(ListedSnapshots(provider, now), MaxListing),
          list_ok \in BOOLEAN :
          IF list_ok
          THEN /\ all_jobs' = get_job_list(listing, hours_ago, now)
               /\ calls' = <<Call("list", NoneStr, "ok", 0)>>
               /\ pc' = "check_recent_jobs"
               /\ exc' = NoneStr
          ELSE /\ all_jobs' = <<>>
               /\ calls' = <<Call("list", NoneStr, "APIConnectionError", 0)>>
               /\ pc' = "raised"
               /\ exc' = "APIConnectionError"
    /\ UNCHANGED <<provider, now, job, result>>
    /\ UNCHANGED artifact
    /\ UNCHANGED <<chain, f_out>>

\* one iteration of "for job in self._get_job_list(hours_ago)"
RecentJob ==
    /\ pc = "check_recent_jobs"
    /\ pos <= Len(all_jobs)
    /\ \E cancel_ok \in BOOLEAN, download \in LoopDownloads :
          LET j == all_jobs[pos]
              r == validate_and_create_report(provider, j, now, cancel_ok, download)
          IN /\ calls' = calls \o ClassificationCalls(j.id, r, download, pos)
             /\ IF r.outcome = "raise"
                THEN RaiseFromPass(r.exc)
                ELSE WriteReport(r.report)
    /\ UNCHANGED <<provider, now, state_file, all_jobs, out_before, job, result, term>>
    /\ UNCHANGED artifact
    /\ UNCHANGED <<chain, f_out>>

\* the listing is exhausted: the output file is closed
EndCheckRecentJobs ==
    /\ pc = "check_recent_jobs"
    /\ pos > Len(all_jobs)
    /\ pc' = "idle"
    /\ UNCHANGED <<provider, now, state_file, pos, all_jobs, output_file, out_before,
                   written, calls, exc, job, result, term, artifact>>
    /\ UNCHANGED <<chain, f_out>>

Next ==
    \/ BeginCheckJobsFromFile
    \/ FromFileLine
    \/ EndCheckJobsFromFile
    \/ BeginCheckRecentJobs
    \/ RecentJob
    \/ EndCheckRecentJobs

Spec == Init /\ [][Next]_vars

----------------------------------------------------------------------------
\* Serialising a report and reading it back:
\* JobReport.from_json(report.to_json())

MaxRoundTrips == 2

\* None or a value, for the Optional fields
Optional(v) == {NoneNum, v}

\* the JobReport values a provider can construct
ValidReports(p) ==
    { JobReport(p, "job-1", st, lat, tok,
                ServiceReportedJobDetails("job-1", MODEL_NAME(p), success_literal(p), Clock0,
                                          e, tr, cr, fr)) :
        st \in UserStatus, lat \in Optional(12345), tok \in Optional(42),
        e \in Optional(Clock0 + 123450), tr \in Optional(2), cr \in Optional(1),
        fr \in Optional(0) }

RoundTripInit ==
    /\ provider \in Providers
    /\ now = Clock0
    /\ pc = "round_trip"
    /\ \E r \in ValidReports(provider) : result = Returned(r, <<>>, 0, Clock0)
    /\ job = NoJob
    /\ term = NoTerm
    /\ state_file = <<>>
    /\ pos = 0
    /\ all_jobs = <<>>
    /\ output_file = <<>>
    /\ out_before = <<>>
    /\ written = <<>>
    /\ calls = <<>>
    /\ exc = NoneStr
    /\ artifact = <<>>
    /\ chain = NoChain
    /\ f_out = NoBuffer

\* report = JobReport.from_json(report.to_json())
SaveAndLoad ==
    /\ pc = "round_trip"
    /\ result.outcome = "return"
    /\ Len(output_file) < MaxRoundTrips
    /\ LET line == to_json(result.report)
           jr == from_json(line)
       IN /\ output_file' = Append(output_file, line)
          /\ result' = IF jr.raises THEN Raised(jr.exc, <<>>, now)
                       ELSE Returned(jr.report, <<>>, 0, now)
    /\ UNCHANGED <<provider, now, pc, state_file, pos, all_jobs, out_before, written,
                   calls, exc, job, term>>
    /\ UNCHANGED artifact
    /\ UNCHANGED <<chain, f_out>>

RoundTripNext == SaveAndLoad

RoundTripSpec == RoundTripInit /\ [][RoundTripNext]_vars

----------------------------------------------------------------------------
\* The cancel_job action of main.py: provider.cancel_job(FLAGS.job_id)

MaxCancels == 2

\* cancel_job(job_id): the request is handed to the provider's client
\* (batches.cancel, or batches.delete for Google and Vertex AI) with no check
\* of the job's state and no exception handler; what the client does with it,
\* return or raise, is the provider's answer.
cancel_job(p, job_id, accepted) == IF accepted THEN "ok" ELSE "APIError"

CancelInit ==
    /\ provider \in Providers
    /\ now = Clock0
    /\ pc = "cancel_job"
    /\ job \in Snapshots(provider, "job-1", Clock0)
    /\ result = NoResult
    /\ term = NoTerm
    /\ state_file = <<>>
    /\ pos = 0
    /\ all_jobs = <<>>
    /\ output_file = <<>>
    /\ out_before = <<>>
    /\ written = <<>>
    /\ calls = <<>>
    /\ exc = NoneStr
    /\ artifact = <<>>
    /\ chain = NoChain
    /\ f_out = NoBuffer

\* one run of main with --action cancel_job; an error of the client is no
\* ValueError and leaves main
CancelJob ==
    /\ pc = "cancel_job"
    /\ Len(calls) < MaxCancels
    /\ \E accepted \in BOOLEAN :
          LET outcome == cancel_job(provider, job.id, accepted) IN
          /\ calls' = Append(calls, Call("cancel", job.id, outcome, 0))
          /\ pc' = IF outcome = "ok" THEN "cancel_job" ELSE "raised"
          /\ exc' = IF outcome = "ok" THEN exc ELSE outcome
    /\ UNCHANGED <<provider, now, state_file, pos, all_jobs, output_file, out_before,
                   written, job, result, term>>
    /\ UNCHANGED artifact
    /\ UNCHANGED <<chain, f_out>>

CancelNext == CancelJob

CancelSpec == CancelInit /\ [][CancelNext]_vars

----------------------------------------------------------------------------
\* The create_jobs action of main.py: create the jobs, then write one report
\* per created job

\* len(PROMPTS)
MaxPrompts == 2

\* the ids the provider gives to the jobs it creates, in order
NewJobIds == <<"job-1", "job-2", "job-3", "job-4">>

\* a job as the provider holds it right after its creation
NewJob(p, i, t) == Job(p, NewJobIds[i], running_literal(p), t, NoneNum, OneSucceeded, FALSE)

\* create_jobs(num_jobs): one creation call per job, in order; created_ok is
\* the number of creation calls that return before one raises
create_jobs(p, num_jobs, created_ok, t) ==
    [raises |-> created_ok < num_jobs,
     calls |-> [i \in 1..(IF created_ok < num_jobs THEN created_ok + 1 ELSE num_jobs) |->
                   Call("create", IF i <= created_ok THEN NewJobIds[i] ELSE NoneStr,
                        IF i <= created_ok THEN "ok" ELSE "APIError", i)],
     job_ids |-> IF created_ok < num_jobs THEN <<>>
                 ELSE [i \in 1..num_jobs |-> NewJob(p, i, t)]]

CreateInit ==
    /\ provider \in Providers
    /\ now = Clock0
    /\ pc = "start"
    /\ state_file = <<>>
    /\ pos = 0
    /\ all_jobs = <<>>
    /\ output_file = <<>>
    /\ out_before = <<>>
    /\ written = <<>>
    /\ calls = <<>>
    /\ exc = NoneStr
    /\ job = NoJob
    /\ result = NoResult
    /\ term = NoTerm
    /\ artifact = <<>>
    /\ chain = NoChain
    /\ f_out = NoBuffer

\* main: the num_jobs check, provider.create_jobs(...), open(output_filename, "a")
CreateJobs ==
    /\ pc = "start"
    /\ \E num_jobs \in 0..(MaxPrompts + 1) :
          IF num_jobs > MaxPrompts
          THEN /\ exc' = "ValueError"
               /\ pc' = "idle"
               /\ UNCHANGED <<calls, all_jobs, pos>>
          ELSE \E created_ok \in 0..num_jobs :
                  LET c == create_jobs(provider, num_jobs, created_ok, now) IN
                  /\ calls' = c.calls
                  /\ all_jobs' = c.job_ids
                  /\ pos' = 1
                  /\ pc' = IF c.raises THEN "raised" ELSE "report_new_jobs"
                  /\ exc' = IF c.raises THEN "APIError" ELSE NoneStr
    /\ UNCHANGED <<provider, now, state_file, output_file, out_before, written, job,
                   result, term>>
    /\ UNCHANGED artifact
    /\ UNCHANGED <<chain, f_out>>

\* one iteration of "for job_id in created_job_ids"
ReportNewJob ==
    /\ pc = "report_new_jobs"
    /\ pos <= Len(all_jobs)
    /\ \E g \in GetOutcomes(provider, all_jobs[pos].id, now),
          cancel_ok \in BOOLEAN, download \in LoopDownloads :
          LET id == all_jobs[pos].id
              r == generate_job_report_for_user(provider, g, now, cancel_ok, download)
          IN /\ calls' = calls
                   \o <<Call("get", id, IF g.raises THEN g.exc ELSE "ok", pos)>>
                   \o ClassificationCalls(id, r, download, pos)
             /\ IF r.outcome = "raise"
                THEN RaiseFromPass(r.exc)
                ELSE WriteReport(r.report)
    /\ UNCHANGED <<provider, now, state_file, all_jobs, out_before, job, result, term>>
    /\ UNCHANGED artifact
    /\ UNCHANGED <<chain, f_out>>

\* the created ids are exhausted: the output file is closed
EndReportNewJobs ==
    /\ pc = "report_new_jobs"
    /\ pos > Len(all_jobs)
    /\ pc' = "idle"
    /\ UNCHANGED <<provider, now, state_file, pos, all_jobs, output_file, out_before,
                   written, calls, exc, job, result, term, artifact>>
    /\ UNCHANGED <<chain, f_out>>

CreateNext ==
    \/ CreateJobs
    \/ ReportNewJob
    \/ EndReportNewJobs

CreateSpec == CreateInit /\ [][CreateNext]_vars

----------------------------------------------------------------------------
\* Token accounting of one downloaded results artifact
\* (_calculate_total_tokens on a succeeded job)

MaxArtifactLines == 3

\* the lines a results artifact is made of
ArtifactLines ==
    { ResultLine("usage", 10, 5), ResultLine("usage", 20, 7), ResultLine("no_usage", 0, 0),
      ResultLine("malformed", 0, 0), ResultLine("empty", 0, 0),
      ResultLine("not_object", 0, 0) }

\* the download returns the artifact
Downloaded(content) == [raises |-> FALSE, found |-> TRUE, content |-> content]

TokenInit ==
    /\ provider \in Providers
    /\ now = Clock0
    /\ pc = "count_tokens"
    /\ artifact \in SeqsUpTo(ArtifactLines, MaxArtifactLines)
    /\ job = Job(provider, "job-1", success_literal(provider), Clock0 - Hour,
                 Clock0 - Hour + 123450, OneSucceeded, TRUE)
    /\ result = NoResult
    /\ term = NoTerm
    /\ state_file = <<>>
    /\ pos = 0
    /\ all_jobs = <<>>
    /\ output_file = <<>>
    /\ out_before = <<>>
    /\ written = <<>>
    /\ calls = <<>>
    /\ exc = NoneStr
    /\ chain = NoChain
    /\ f_out = NoBuffer

\* the succeeded job is classified; its artifact is downloaded and counted
CountTokens ==
    /\ pc = "count_tokens"
    /\ result' = validate_and_create_report(provider, job, now, TRUE, Downloaded(artifact))
    /\ pc' = "counted"
    /\ UNCHANGED <<provider, now, state_file, pos, all_jobs, output_file, out_before,
                   written, calls, exc, job, term, artifact>>
    /\ UNCHANGED <<chain, f_out>>

TokenNext == CountTokens

TokenSpec == TokenInit /\ [][TokenNext]_vars

----------------------------------------------------------------------------
\* The polling loops of the job-creation scripts: GeminiProcessor.process and
\* OpenAIProcessor.process (batch_processor.py), openai_batch_embeddings.py

MaxPolls == 3

PollingLoops == {"GeminiProcessor", "OpenAIProcessor", "openai_batch_embeddings"}

\* the statuses the provider of a loop reports
PolledStatuses(loop) ==
    IF loop = "GeminiProcessor" THEN GoogleJobStatus ELSE OpenAIJobStatus

\* the statuses on which the loop is left
ExitStatuses(loop) ==
    CASE loop = "GeminiProcessor" ->
            {"JOB_STATE_SUCCEEDED", "JOB_STATE_FAILED", "JOB_STATE_CANCELLED"}
      [] loop = "OpenAIProcessor" -> {"completed", "failed", "cancelled"}
      [] loop = "openai_batch_embeddings" -> {"completed", "failed"}

\* the statuses a job never leaves
FinalStatuses(loop) ==
    IF loop = "GeminiProcessor"
    THEN {"JOB_STATE_SUCCEEDED", "JOB_STATE_FAILED", "JOB_STATE_CANCELLED", "JOB_STATE_EXPIRED"}
    ELSE {"completed", "failed", "cancelled", "expired"}

\* time.sleep(30) / time.sleep(10), in milliseconds
SleepInterval(loop) == IF loop = "openai_batch_embeddings" THEN 10 * 1000 ELSE 30 * 1000

\* the job as batches.create returned it
CreatedJob(loop) ==
    [NoJob EXCEPT !.id = "job-1", !.created_at = Clock0,
                  !.status = IF loop = "GeminiProcessor" THEN "JOB_STATE_PENDING"
                             ELSE "validating"]

\* batch_processor tests the status that create returned first;
\* openai_batch_embeddings retrieves first
PollInit ==
    /\ provider \in PollingLoops
    /\ now = Clock0
    /\ pc = IF provider = "openai_batch_embeddings" THEN "retrieve" ELSE "test_status"
    /\ job = CreatedJob(provider)
    /\ pos = 0
    /\ result = NoResult
    /\ term = NoTerm
    /\ state_file = <<>>
    /\ all_jobs = <<>>
    /\ output_file = <<>>
    /\ out_before = <<>>
    /\ written = <<>>
    /\ calls = <<>>
    /\ exc = NoneStr
    /\ artifact = <<>>
    /\ chain = NoChain
    /\ f_out = NoBuffer

\* the while condition (batch_processor) or the if / elif (embeddings script)
TestStatus ==
    /\ pc = "test_status"
    /\ pc' = IF job.status \in ExitStatuses(provider) THEN "done" ELSE "sleep"
    /\ UNCHANGED <<provider, now, state_file, pos, all_jobs, output_file, out_before,
                   written, calls, exc, job, result, term, artifact>>
    /\ UNCHANGED <<chain, f_out>>

\* time.sleep(interval)
Sleep ==
    /\ pc = "sleep"
    /\ now' = IF pos < MaxPolls THEN now + SleepInterval(provider) ELSE now
    /\ pc' = "retrieve"
    /\ UNCHANGED <<provider, state_file, pos, all_jobs, output_file, out_before,
                   written, calls, exc, job, result, term, artifact>>
    /\ UNCHANGED <<chain, f_out>>

\* batches.get / batches.retrieve: the provider reports the job's status,
\* which no longer changes once it is final
Retrieve ==
    /\ pc = "retrieve"
    /\ \E st \in PolledStatuses(provider) :
          /\ (job.status \in FinalStatuses(provider)) => st = job.status
          /\ job' = [job EXCEPT !.status = st]
    /\ pos' = IF pos < MaxPolls THEN pos + 1 ELSE pos
    /\ pc' = "test_status"
    /\ UNCHANGED <<provider, now, state_file, all_jobs, output_file, out_before,
                   written, calls, exc, result, term, artifact>>
    /\ UNCHANGED <<chain, f_out>>

PollNext ==
    \/ TestStatus
    \/ Sleep
    \/ Retrieve

PollSpec == PollInit /\ [][PollNext]_vars

\* the script keeps running: a loop that can take a step takes it
PollFairSpec == PollSpec /\ WF_vars(PollNext)

----------------------------------------------------------------------------
\* A chain of resume passes: every pass after the first reads the output
\* file of the pass before it (check_jobs_from_file run again and again)

MaxPasses == 3

\* the lines of the state file the chain starts from
ChainLines(p) ==
    {StateLine(p, id, "IN_PROGRESS") : id \in JobIds}
        \cup {StateLine(p, "job-1", "SUCCEEDED")}

\* what the pass that has just ended adds to the history of the chain
chain_after_pass ==
    [passes |-> chain.passes + 1,
     terminal |-> chain.terminal
        \cup {output_file[k].job_id : k \in {m \in (Len(out_before) + 1)..Len(output_file) :
                                               is_terminal(output_file[m].user_assigned_status)}},
     cancels |-> chain.cancels
        \o [k \in 1..Cardinality({m \in 1..Len(calls) : calls[m].op = "cancel"}) |->
              calls[CHOOSE m \in 1..Len(calls) :
                      /\ calls[m].op = "cancel"
                      /\ Cardinality({n \in 1..m : calls[n].op = "cancel"}) = k].job_id],
     lines |-> Len(output_file)]

ChainInit ==
    /\ provider \in Providers
    /\ now = Clock0
    /\ pc = "start"
    /\ state_file \in SeqsUpTo(ChainLines(provider), MaxLines)
    /\ pos = 0
    /\ all_jobs = <<>>
    /\ output_file = <<>>
    /\ out_before = <<>>
    /\ written = <<>>
    /\ calls = <<>>
    /\ exc = NoneStr
    /\ job = NoJob
    /\ result = NoResult
    /\ term = NoTerm
    /\ artifact = <<>>
    /\ chain = NoChain
    /\ f_out = NoBuffer

\* main is run again with --state_file naming the output file of the run
\* before (the first run reads the state file the chain starts from)
BeginChainPass ==
    /\ pc \in {"start", "idle", "raised"}
    /\ chain.passes < MaxPasses
    /\ chain' = IF pc = "start" THEN [chain EXCEPT !.passes = 1] ELSE chain_after_pass
    /\ state_file' = IF pc = "start" THEN state_file ELSE output_file
    /\ pc' = "check_jobs_from_file"
    /\ pos' = 1
    /\ exc' = NoneStr
    /\ calls' = <<>>
    /\ written' = <<>>
    /\ term' = NoTerm
    /\ output_file' = <<EarlierLine(provider)>>
    /\ out_before' = <<EarlierLine(provider)>>
    /\ UNCHANGED <<provider, now, all_jobs, job, result, artifact, f_out>>

ChainNext ==
    \/ BeginChainPass
    \/ FromFileLine
    \/ EndCheckJobsFromFile

ChainSpec == ChainInit /\ [][ChainNext]_vars

----------------------------------------------------------------------------
\* One resume pass with its two file objects: f_in iterates over the state
\* file, f_out appends to the output file.  The output path is a file of its
\* own or names the state file; in the second case what f_out wrote reaches
\* the file when its buffer is flushed (buffer full, or close), and f_in
\* then finds the flushed lines at its next read.

\* lines f_in is followed through when the file grows under it
MaxReads == MaxLines + 2

FilePassInit ==
    /\ provider \in Providers
    /\ now = Clock0
    /\ pc = "check_jobs_from_file"
    /\ state_file \in SeqsUpTo(ChainLines(provider), MaxLines)
    /\ f_out \in {[same_file |-> b, buffer |-> <<>>] : b \in BOOLEAN}
    /\ output_file = IF f_out.same_file THEN state_file ELSE <<EarlierLine(provider)>>
    /\ out_before = output_file
    /\ pos = 1
    /\ all_jobs = <<>>
    /\ written = <<>>
    /\ calls = <<>>
    /\ exc = NoneStr
    /\ job = NoJob
    /\ result = NoResult
    /\ term = NoTerm
    /\ artifact = <<>>
    /\ chain = NoChain

\* one iteration of the loop, the output being a file of its own
SeparateFileLine == ~f_out.same_file /\ FromFileLine

SeparateFileEnd == ~f_out.same_file /\ EndCheckJobsFromFile

\* the buffer of f_out is written to the file, which is the state file
flushed == state_file \o f_out.buffer

\* one iteration of the loop, f_out appending to the state file itself
SameFileLine ==
    /\ f_out.same_file
    /\ pc = "check_jobs_from_file"
    /\ pos <= Len(state_file)
    /\ pos <= MaxReads
    /\ LET jr == from_json(state_file[pos]) IN
       IF jr.raises
       THEN /\ pc' = "raised"
            /\ exc' = jr.exc
            /\ state_file' = flushed
            /\ output_file' = flushed
            /\ f_out' = [f_out EXCEPT !.buffer = <<>>]
            /\ UNCHANGED <<pos, written, calls, term>>
       ELSE LET st == jr.report.user_assigned_status
                id == jr.report.job_id
            IN /\ term' = [called |-> TRUE, arg |-> st, ret |-> is_terminal(st)]
               /\ IF is_terminal(st) \/ id \in {"", NoneStr}
                  THEN /\ pos' = pos + 1
                       /\ UNCHANGED <<pc, exc, state_file, output_file, written, calls, f_out>>
                  ELSE \E g \in GetOutcomes(provider, id, now),
                          cancel_ok \in BOOLEAN, download \in LoopDownloads :
                         LET r == generate_job_report_for_user(provider, g, now,
                                                               cancel_ok, download)
                         IN /\ calls' = calls
                                  \o <<Call("get", id, IF g.raises THEN g.exc ELSE "ok", pos)>>
                                  \o ClassificationCalls(id, r, download, pos)
                            /\ IF r.outcome = "raise"
                               THEN /\ pc' = "raised"
                                    /\ exc' = r.exc
                                    /\ state_file' = flushed
                                    /\ output_file' = flushed
                                    /\ f_out' = [f_out EXCEPT !.buffer = <<>>]
                                    /\ UNCHANGED <<pos, written>>
                               ELSE /\ f_out' = [f_out EXCEPT
                                                   !.buffer = Append(@, to_json(r.report))]
                                    /\ written' = Append(written, pos)
                                    /\ pos' = pos + 1
                                    /\ UNCHANGED <<pc, exc, state_file, output_file>>
    /\ UNCHANGED <<provider, now, all_jobs, out_before, job, result, artifact, chain>>

\* f_out.write filled the buffer: the buffered lines reach the file
FlushBuffer ==
    /\ f_out.same_file
    /\ pc = "check_jobs_from_file"
    /\ f_out.buffer # <<>>
    /\ state_file' = flushed
    /\ output_file' = flushed
    /\ f_out' = [f_out EXCEPT !.buffer = <<>>]
    /\ UNCHANGED <<provider, now, pc, pos, all_jobs, out_before, written, calls, exc,
                   job, result, term, artifact, chain>>

\* f_in is exhausted: both file objects are closed, f_out is flushed
SameFileEnd ==
    /\ f_out.same_file
    /\ pc = "check_jobs_from_file"
    /\ pos > Len(state_file)
    /\ pc' = "idle"
    /\ state_file' = flushed
    /\ output_file' = flushed
    /\ f_out' = [f_out EXCEPT !.buffer = <<>>]
    /\ UNCHANGED <<provider, now, pos, all_jobs, out_before, written, calls, exc,
                   job, result, term, artifact, chain>>

FilePassNext ==
    \/ SeparateFileLine
    \/ SeparateFileEnd
    \/ SameFileLine
    \/ FlushBuffer
    \/ SameFileEnd

FilePassSpec == FilePassInit /\ [][FilePassNext]_vars

\* the process keeps running: the loop takes its next step
FilePassFairSpec == FilePassSpec /\ WF_vars(FilePassNext)

----------------------------------------------------------------------------
\* Vocabulary of the properties

TerminalTokens == {"SUCCEEDED", "FAILED", "CANCELLED_ON_DEMAND", "CANCELLED_TIMED_OUT"}

\* the last pass was a fresh scan (its first call lists the jobs)
ScanPass == calls # <<>> /\ calls[1].op = "list"

\* the input of the running pass
PassInput == IF ScanPass THEN all_jobs ELSE state_file

\* a pass has run to its end or was left by an exception
PassEnded == pc \in {"idle", "raised"}

\* line i of the state file is non-terminal and names a job
NonTerminalRecord(i) ==
    /\ state_file[i].user_assigned_status \notin TerminalTokens
    /\ state_file[i].job_id \notin {"", JsonNull}

RetrievalsFor(i) == {k \in 1..Len(calls) : calls[k].op = "get" /\ calls[k].line = i}

LinesWrittenFor(i) == {k \in 1..Len(written) : written[k] = i}

\* the output line that the k-th write of the running pass appended
WrittenLine(k) == output_file[Len(out_before) + k]

\* provider statuses that are not terminal on the provider side
NonTerminalProviderStatuses(p) ==
    CASE p = "google" -> {"JOB_STATE_PENDING", "JOB_STATE_RUNNING"}
      [] p = "openai" -> {"validating", "in_progress", "finalizing", "cancelling"}
      [] p = "anthropic" -> {"in_progress"}
      [] p = "google_vertex_ai" ->
            {"JOB_STATE_PENDING", "JOB_STATE_RUNNING", "JOB_STATE_UNSPECIFIED",
             "JOB_STATE_QUEUED", "JOB_STATE_PAUSED", "JOB_STATE_UPDATING",
             "JOB_STATE_CANCELLING"}

Classified == result.outcome # "none"

AgeAtClassification == result.at - job.created_at

VertexCancelling == provider = "google_vertex_ai" /\ job.status = "JOB_STATE_CANCELLING"

\* the provider reports a cancellation asked for by the user
UserCancelled ==
    CASE provider = "google" -> job.status = "JOB_STATE_CANCELLED"
      [] provider = "google_vertex_ai" -> job.status = "JOB_STATE_CANCELLED"
      [] provider = "openai" -> job.status = "cancelled"
      [] provider = "anthropic" ->
            job.status = "ended" /\ job.canceled > 0 /\ job.errored = 0

----------------------------------------------------------------------------
\* C1: a resume-from-file pass issues no provider call and writes no line
\* for a record whose status is SUCCEEDED, FAILED, CANCELLED_ON_DEMAND or
\* CANCELLED_TIMED_OUT; over a file of terminal records only it issues no
\* call and leaves the output file as it found it, on every run.
C1_TerminalRecordsSkipped ==
    ~ScanPass =>
        /\ \A k \in 1..Len(calls) :
              state_file[calls[k].line].user_assigned_status \notin TerminalTokens
        /\ \A k \in 1..Len(written) :
              state_file[written[k]].user_assigned_status \notin TerminalTokens
        /\ (\A i \in 1..Len(state_file) :
                state_file[i].user_assigned_status \in TerminalTokens)
              => (calls = <<>> /\ output_file = out_before)

\* a pass has read a file of two terminal records to its end
C1_Witness ==
    /\ pc = "idle"
    /\ ~ScanPass
    /\ Len(state_file) >= 2
    /\ pos > Len(state_file)
    /\ \A i \in 1..Len(state_file) : state_file[i].user_assigned_status \in TerminalTokens

\* C2 (as claimed): when a resume-from-file pass has ended, every non-terminal
\* record with a job id has had exactly one retrieval call and, unless its own
\* processing raised, exactly one output line; no record has more than one.
C2_OneRetrievalOneLinePerRecord ==
    (PassEnded /\ ~ScanPass) =>
        \A i \in 1..Len(state_file) :
            /\ Cardinality(LinesWrittenFor(i)) <= 1
            /\ NonTerminalRecord(i) =>
                  /\ Cardinality(RetrievalsFor(i)) = 1
                  /\ Cardinality(LinesWrittenFor(i))
                        = IF pc = "raised" /\ pos = i THEN 0 ELSE 1

C4_UnknownStatusRaises ==
    (Classified /\ job.status \notin job_status_enum(provider))
    => /\ result.outcome = "raise"
       /\ result.exc = "ValueError"
       /\ result.report = NoReport
       /\ result.cancel_calls = <<>>
       /\ result.downloads = 0
       /\ output_file = <<>>

\* a 25 hour old snapshot in an unknown state was handed to the validation
C4_Witness ==
    /\ Classified
    /\ job.status = "UNKNOWN_STATE"
    /\ AgeAtClassification > Day
    /\ result.outcome = "raise"

C6_CancelledByDuration ==
    (result.outcome = "return" /\ UserCancelled)
    => result.report.user_assigned_status
          = IF job.ended_at # NoneNum /\ job.ended_at - job.created_at > Day
            THEN CANCELLED_TIMED_OUT ELSE CANCELLED_ON_DEMAND

\* C7 (as claimed): an error raised while one job is processed does not end
\* the pass: when an exception has left a pass, no later job was left
\* unprocessed.
C7_ErrorDoesNotAbortPass ==
    pc = "raised" => pos >= Len(PassInput)

\* C8 (as claimed): a retrieval that fails because the job no longer exists
\* yields an output line with status UNKNOWN for that job, not an exception.
C8_UnknownReportForMissingJob ==
    \A k \in 1..Len(calls) :
        (calls[k].op = "get" /\ calls[k].outcome = "NotFoundError")
        => /\ pc # "raised"
           /\ \E m \in 1..Len(written) :
                 /\ written[m] = calls[k].line
                 /\ WrittenLine(m).job_id = calls[k].job_id
                 /\ WrittenLine(m).user_assigned_status = "UNKNOWN"

\* a provider call of the running pass that failed (a failed results
\* download is token accounting and is caught inside the classification)
FailedCalls ==
    {k \in 1..Len(calls) : calls[k].op \in {"get", "cancel", "list"} /\ calls[k].outcome # "ok"}

\* C9: when a retrieval, cancellation or listing call fails, no line is
\* written for that job; the lines the output file held before the pass and
\* the lines written earlier in the pass stay as they are.
C9_NoLineOnFailedCall ==
    /\ [](/\ \A k \in FailedCalls : LinesWrittenFor(calls[k].line) = {}
          /\ Len(output_file) = Len(out_before) + Len(written)
          /\ SubSeq(output_file, 1, Len(out_before)) = out_before)
    /\ [][(pc \in {"check_jobs_from_file", "check_recent_jobs"} /\ pc' = "raised")
             => output_file' = output_file]_vars
    /\ [][(pc \in {"check_jobs_from_file", "check_recent_jobs"})
             => SubSeq(output_file', 1, Len(output_file)) = output_file]_vars

\* a transport error left a pass that had already written a line
C9_Witness ==
    /\ pc = "raised"
    /\ exc = "APIConnectionError"
    /\ Len(written) >= 1
    /\ FailedCalls # {}

\* C10: is_terminal is true exactly for SUCCEEDED, FAILED, CANCELLED_ON_DEMAND
\* and CANCELLED_TIMED_OUT, and false for IN_PROGRESS, UNKNOWN and None.
C10_IsTerminalExactlyFour ==
    term.called =>
        (term.ret <=> term.arg \in {SUCCEEDED, FAILED, CANCELLED_ON_DEMAND, CANCELLED_TIMED_OUT})

\* is_terminal was asked about a record without a status
C10_Witness ==
    /\ term.called
    /\ term.arg = NoneStr
    /\ ~term.ret

\* the status token of the k-th line of the output file
StatusOfLine(k) == output_file[k].user_assigned_status

SuccessCondition ==
    CASE provider = "google" -> job.status = "JOB_STATE_SUCCEEDED"
      [] provider = "google_vertex_ai" -> job.status = "JOB_STATE_SUCCEEDED"
      [] provider = "openai" -> job.status = "completed"
      [] provider = "anthropic" ->
            /\ job.status = "ended"
            /\ job.succeeded = job.succeeded + job.errored + job.expired + job.canceled

TokenAccountingFails(d) ==
    \/ ~job.results
    \/ d.raises
    \/ provider = "google_vertex_ai" /\ ~d.found

FailureCondition ==
    CASE provider = "google" -> job.status = "JOB_STATE_FAILED"
      [] provider = "openai" -> job.status = "failed"
      [] provider = "google_vertex_ai" ->
            job.status \in {"JOB_STATE_FAILED", "JOB_STATE_PARTIALLY_SUCCEEDED"}
      [] provider = "anthropic" -> job.status = "ended" /\ job.errored > 0

\* C15: a snapshot under the provider's failure condition is classified
\* FAILED, with no cancel_job call; for Anthropic errored > 0 wins over
\* canceled and expired counts, and canceled > 0 wins over expired > 0 (a batch
\* that ran for at most 24 hours is then CANCELLED_ON_DEMAND, not timed out).
C15_FailedClassification ==
    Classified =>
        /\ FailureCondition =>
              /\ result.outcome = "return"
              /\ result.report.user_assigned_status = FAILED
              /\ result.cancel_calls = <<>>
        /\ (/\ provider = "anthropic"
            /\ job.status = "ended"
            /\ job.errored = 0
            /\ job.canceled > 0
            /\ (job.ended_at = NoneNum \/ job.ended_at - job.created_at <= Day))
           => /\ result.outcome = "return"
              /\ result.report.user_assigned_status = CANCELLED_ON_DEMAND

\* an ended Anthropic batch with errored, canceled and expired requests was
\* reported FAILED
C15_Witness ==
    /\ Classified
    /\ provider = "anthropic"
    /\ job.status = "ended"
    /\ job.errored > 0
    /\ job.canceled > 0
    /\ job.expired > 0
    /\ result.report.user_assigned_status = FAILED

\* the provider reports the snapshot as expired
ExpiredCondition ==
    CASE provider = "google" -> job.status = "JOB_STATE_EXPIRED"
      [] provider = "google_vertex_ai" -> job.status = "JOB_STATE_EXPIRED"
      [] provider = "openai" -> job.status = "expired"
      [] provider = "anthropic" ->
            /\ job.status = "ended"
            /\ job.expired > 0
            /\ job.errored = 0
            /\ job.canceled = 0

\* C16: a snapshot the provider reports as expired is classified
\* CANCELLED_TIMED_OUT whatever its timestamps and the clock, with no
\* cancel_job call.
C16_ExpiredIsTimedOut ==
    (Classified /\ ExpiredCondition)
    => /\ result.outcome = "return"
       /\ result.report.user_assigned_status = CANCELLED_TIMED_OUT
       /\ result.cancel_calls = <<>>

\* an expired job one hour old, without end time, was reported timed out
C16_Witness ==
    /\ Classified
    /\ ExpiredCondition
    /\ job.created_at = Clock0 - Hour
    /\ job.ended_at = NoneNum
    /\ result.at > Clock0
    /\ result.report.user_assigned_status = CANCELLED_TIMED_OUT
    /\ result.cancel_calls = <<>>

\* C17 (as claimed): in a fresh scan the jobs kept from the listing are all
\* created within the horizon, calls and lines are made for kept jobs only,
\* in listing order, and when the pass has ended every kept job has been
\* classified and those before the last have each been reported once.
C17_ScanStopsAtHorizon ==
    ScanPass =>
        /\ \A k \in 1..Len(all_jobs) : all_jobs[k].created_at >= now - hours_ago * Hour
        /\ \A k \in 2..Len(calls) :
              /\ calls[k].line \in 1..Len(all_jobs)
              /\ calls[k].job_id = all_jobs[calls[k].line].id
              /\ calls[k - 1].line <= calls[k].line
        /\ \A k \in 1..Len(written) :
              /\ written[k] \in 1..Len(all_jobs)
              /\ WrittenLine(k).job_id = all_jobs[written[k]].id
        /\ PassEnded =>
              /\ pos >= Len(all_jobs)
              /\ \A i \in 1..(Len(all_jobs) - 1) : Cardinality(LinesWrittenFor(i)) = 1

\* the snapshot is in a state that is terminal on the provider side
ProviderTerminal ==
    /\ job.status \in job_status_enum(provider)
    /\ job.status \notin NonTerminalProviderStatuses(provider)

\* C18 (as claimed): cancel_job on a job that is terminal on the provider
\* side, or that an earlier cancel_job call has already cancelled, returns
\* without raising.
C18_CancelIdempotent ==
    \A k \in 1..Len(calls) :
        (/\ calls[k].op = "cancel"
         /\ \/ ProviderTerminal
            \/ \E i \in 1..(k - 1) : calls[i].op = "cancel" /\ calls[i].outcome = "ok")
        => calls[k].outcome = "ok"

\* the six canonical status tokens
CanonicalTokens ==
    {"SUCCEEDED", "FAILED", "CANCELLED_TIMED_OUT", "IN_PROGRESS", "CANCELLED_ON_DEMAND",
     "UNKNOWN"}

\* C19 (as claimed): from_json raises for a record whose user_assigned_status
\* is not a canonical token, so the status of a report it returns is always
\* a member of UserStatus, and the resume loop never retrieves the job of
\* such a record nor reads past it.
C19_FromJsonRejectsNonCanonical ==
    /\ term.called => term.arg \in UserStatus
    /\ ~ScanPass =>
          \A k \in 1..Len(calls) :
              state_file[calls[k].line].user_assigned_status \in CanonicalTokens
    /\ (~ScanPass /\ pc # "start") =>
          \A i \in 1..(pos - 1) :
              i <= Len(state_file) => state_file[i].user_assigned_status \in CanonicalTokens

\* the lines of the state file that name job id
LinesOf(id) == {i \in 1..Len(state_file) : state_file[i].job_id = id}

\* the last line of the state file that names job id
LatestLineOf(id) == CHOOSE i \in LinesOf(id) : \A k \in LinesOf(id) : k <= i

\* C20 (as claimed): in a resume-from-file pass the latest line of a job
\* decides: no provider call and no output line is made for a job whose
\* latest line is terminal, and a job is retrieved at most once per pass.
C20_LatestLineAuthoritative ==
    ~ScanPass =>
        /\ \A k \in 1..Len(calls) :
              state_file[LatestLineOf(calls[k].job_id)].user_assigned_status
                  \notin TerminalTokens
        /\ \A k \in 1..Len(written) :
              state_file[LatestLineOf(state_file[written[k]].job_id)].user_assigned_status
                  \notin TerminalTokens
        /\ \A id \in JobIds :
              Cardinality({k \in 1..Len(calls) :
                              calls[k].op = "get" /\ calls[k].job_id = id}) <= 1

\* C22: a report has a latency only if its status is SUCCEEDED; reports with
\* any other status carry a null latency, also when the snapshot has an end
\* timestamp.
C22_LatencyOnlyForSucceeded ==
    result.outcome = "return" =>
        (result.report.latency_seconds # NoneNum
            => result.report.user_assigned_status = SUCCEEDED)

\* a failed job with an end timestamp was reported without latency
C22_Witness ==
    /\ result.outcome = "return"
    /\ job.ended_at # NoneNum
    /\ result.report.user_assigned_status = FAILED
    /\ result.report.latency_seconds = NoneNum

\* the status _calculate_total_tokens asks for before it downloads anything
InResultsState ==
    CASE provider = "google" -> job.status = "JOB_STATE_SUCCEEDED"
      [] provider = "google_vertex_ai" -> job.status = "JOB_STATE_SUCCEEDED"
      [] provider = "openai" -> job.status = "completed"
      [] provider = "anthropic" -> job.status = "ended"

\* C23: _calculate_total_tokens returns null without any download call when
\* the job is not in the success/ended state or names no results artifact;
\* a classification downloads only when both hold, and at most once.
C23_DownloadOnlyWithArtifact ==
    /\ \A d \in Downloads :
          LET tk == calculate_total_tokens(provider, job, d) IN
          /\ tk.downloads <= 1
          /\ ~(InResultsState /\ job.results) => (tk.tokens = NoneNum /\ tk.downloads = 0)
    /\ Classified =>
          /\ result.downloads <= 1
          /\ result.downloads = 1 => (InResultsState /\ job.results)
          /\ ~(InResultsState /\ job.results) =>
                (result.outcome = "return" => result.report.total_tokens = NoneNum)

\* a succeeded job without results artifact was reported without token count
\* and without a download
C23_Witness ==
    /\ Classified
    /\ InResultsState
    /\ ~job.results
    /\ result.outcome = "return"
    /\ result.report.user_assigned_status = SUCCEEDED
    /\ result.downloads = 0
    /\ result.report.total_tokens = NoneNum

\* C28: every report an adapter returns, and every line written from one,
\* has a status among SUCCEEDED, FAILED, IN_PROGRESS, CANCELLED_ON_DEMAND and
\* CANCELLED_TIMED_OUT; UNKNOWN is never assigned.
C28_UnknownNeverAssigned ==
    /\ result.outcome = "return" =>
          result.report.user_assigned_status
              \in {SUCCEEDED, FAILED, IN_PROGRESS, CANCELLED_ON_DEMAND, CANCELLED_TIMED_OUT}
    /\ \A k \in 1..Len(output_file) :
          StatusOfLine(k) \in {"SUCCEEDED", "FAILED", "IN_PROGRESS", "CANCELLED_ON_DEMAND",
                               "CANCELLED_TIMED_OUT"}

\* a snapshot was classified twice and two lines were written, the first
\* IN_PROGRESS
C28_Witness ==
    /\ result.outcome = "return"
    /\ Len(output_file) = 2
    /\ StatusOfLine(1) = "IN_PROGRESS"

\* C29: classifying a snapshot whose status is terminal on the provider side
\* issues no cancel_job call whatever the age; a classification calls
\* cancel_job only for a provider-non-terminal status older than 24 hours.
C29_NoCancelForTerminal ==
    Classified =>
        /\ ProviderTerminal => result.cancel_calls = <<>>
        /\ result.cancel_calls # <<>> =>
              /\ job.status \in NonTerminalProviderStatuses(provider)
              /\ AgeAtClassification > Day
              /\ result.cancel_calls = <<job.id>>

\* an expired job 25 hours old was classified without a cancel_job call
C29_Witness ==
    /\ Classified
    /\ ProviderTerminal
    /\ ExpiredCondition
    /\ AgeAtClassification >= 25 * Hour
    /\ result.outcome = "return"
    /\ result.cancel_calls = <<>>

\* the calls of the running action with operation op
CallsOf(op) == {k \in 1..Len(calls) : calls[k].op = op}

\* the creation calls all precede the retrieval calls, one report is asked
\* for per created job, in the order of creation
ReportsFollowCreation ==
    /\ \A c \in CallsOf("create") : \A g \in CallsOf("get") : c < g
    /\ \A g \in CallsOf("get") :
          /\ calls[g].line \in 1..Len(all_jobs)
          /\ calls[g].job_id = all_jobs[calls[g].line].id
          /\ \A h \in CallsOf("get") : (h # g) => calls[h].line # calls[g].line
    /\ CallsOf("get") # {} => Cardinality(CallsOf("create")) = Len(all_jobs)
    /\ \A k \in 1..Len(written) :
          /\ written[k] \in 1..Len(all_jobs)
          /\ WrittenLine(k).job_id = all_jobs[written[k]].id
          /\ \A m \in 1..(k - 1) : written[m] < written[k]

\* num_jobs exceeded the number of prompts: nothing was created or written
TooManyJobsRejected ==
    (pc = "idle" /\ exc = "ValueError") => (calls = <<>> /\ output_file = <<>>)

\* C21: the create_jobs action asks for one report per created
\* job, after all creations and in their order, and when it has ended one
\* line has been written per created job; a num_jobs above the number of
\* prompts creates and writes nothing.
C21_OneLinePerCreatedJob ==
    /\ ReportsFollowCreation
    /\ TooManyJobsRejected
    /\ PassEnded =>
          /\ Len(written) = Len(all_jobs)
          /\ \A i \in 1..Len(all_jobs) :
                Cardinality({g \in CallsOf("get") : calls[g].line = i}) = 1

\* the usage value of a line that parses and carries a usage record
UsageValue(p, line) ==
    IF p = "anthropic" THEN line.tokens + line.output_tokens ELSE line.tokens

\* the sum of the usage values of the lines at the positions in S
RECURSIVE UsageOver(_, _, _)
UsageOver(p, content, S) ==
    IF S = {} THEN 0
    ELSE LET k == CHOOSE k \in S : TRUE
         IN (IF content[k].kind = "usage" THEN UsageValue(p, content[k]) ELSE 0)
            + UsageOver(p, content, S \ {k})

\* the orders the lines of content can come in
Reorderings(content) ==
    { [k \in 1..Len(content) |-> content[f[k]]] :
        f \in {g \in [1..Len(content) -> 1..Len(content)] :
                 \A a, b \in 1..Len(content) : (a # b) => g[a] # g[b]} }

\* C24: the token count of a downloaded artifact is the sum of the usage
\* values of its lines that parse and carry a usage record; empty, malformed
\* and usage-less lines add 0 and do not abort the sum; the order of the
\* lines does not matter.
C24_TokensAreSumOfUsage ==
    (pc = "counted") =>
        /\ result.outcome = "return"
        /\ result.report.total_tokens = UsageOver(provider, artifact, 1..Len(artifact))
        /\ \A c \in Reorderings(artifact) :
              calculate_total_tokens(provider, job, Downloaded(c)).tokens
                  = result.report.total_tokens

\* C25: once the provider reports a final status (succeeded or completed,
\* failed, cancelled, expired) and keeps reporting it, the polling loop is
\* eventually left.
C25_PollingLoopExits ==
    (job.status \in FinalStatuses(provider)) ~> (pc = "done")

\* the classification invoked cancel_job and cancel_job raised
CancelRaised ==
    result.outcome = "raise" /\ result.cancel_calls # <<>> /\ result.exc = "APIError"

\* a report CANCELLED_TIMED_OUT was returned for a snapshot that is not
\* terminal on the provider side
TimedOutWhileRunning ==
    /\ result.outcome = "return"
    /\ result.report.user_assigned_status = CANCELLED_TIMED_OUT
    /\ job.status \in NonTerminalProviderStatuses(provider)

ForceCancelsOf(id) ==
    Cardinality({k \in 1..Len(chain.cancels) : chain.cancels[k] = id})
        + Cardinality({k \in CallsOf("cancel") : calls[k].job_id = id})

\* C27: in a chain of resume passes, a job for which an earlier pass wrote a
\* terminal line gets no provider call; a job gets at most one cancel_job
\* call over the chain; a pass writes no more lines than the pass before it;
\* over an input of terminal lines only a pass writes nothing.
C27_ChainConverges ==
    /\ \A k \in 1..Len(calls) : calls[k].job_id \notin chain.terminal
    /\ \A id \in JobIds : ForceCancelsOf(id) <= 1
    /\ (chain.passes >= 2) => Len(output_file) <= chain.lines
    /\ (chain.passes >= 2 /\ \A i \in 1..Len(state_file) :
                                is_terminal(state_file[i].user_assigned_status))
          => (written = <<>> /\ calls = <<>>)

\* the lines the state file held when the pass started
StartLines == IF f_out.same_file THEN out_before ELSE state_file

\* C30: a resume pass ends; it has then read every line the state file held
\* at its start exactly once, with at most one retrieval per line and none
\* for a line appended during the pass; it leaves the state file as it was;
\* the lines it writes are in the order of the lines they come from.  The
\* same when the output path names the state file.
C30_PassReadsStartLinesOnce ==
    /\ <>PassEnded
    /\ [](/\ PassEnded => pos = Len(StartLines) + 1
          /\ \A k \in CallsOf("get") :
                /\ calls[k].line <= Len(StartLines)
                /\ Cardinality(RetrievalsFor(calls[k].line)) = 1
          /\ \A k \in 1..Len(written) : \A m \in 1..(k - 1) : written[m] < written[k])
    /\ [][state_file' = state_file]_vars

====
